---------------------------- MODULE Spec2Model ----------------------------
(***************************************************************************)
(* State-machine model of script/md5_fuzz_compare.py: the differential     *)
(* fuzz harness that compares the external kmd5 binary against hashlib.    *)
(*                                                                         *)
(* Strings are sequences of one-character strings.  fuzz_compare is one    *)
(* sequential process; pc is its position.  The kmd5 child process and the *)
(* random source are the environment.                                      *)
(***************************************************************************)
EXTENDS Integers, Sequences, FiniteSets, TLC

VARIABLES
    min_length,     \* fuzz_compare parameter
    max_length,     \* fuzz_compare parameter
    num_tests,      \* fuzz_compare parameter
    kmd5,           \* how the installed ../bin/kmd5 deviates when it deviates
    pc,             \* position of fuzz_compare
    length_it,      \* next value the iterator of range(min_length, max_length + 1) yields
    length,         \* loop variable of the outer for
    trial_it,       \* number of values the iterator of range(num_tests) has yielded
    random_string,  \* local of fuzz_compare
    nuclear_md5,    \* local of fuzz_compare
    ref_md5,        \* local of fuzz_compare
    command,        \* argv of the last subprocess.run call
    proc,           \* status of the child process subprocess.run is waiting for
    outstanding,    \* number of kmd5 child processes launched and not yet reaped
    result,         \* the CompletedProcess of the last subprocess.run that returned,
                    \* kept until the comparison that judges its output
    out,            \* lines printed to standard output so far
    calls,          \* history: per length, how often adapter and oracle were called,
                    \* and the argument of the last oracle call
    verdicts        \* history: how many comparisons found equal / different digests

vars == <<min_length, max_length, num_tests, kmd5, pc, length_it, length, trial_it,
          random_string, nuclear_md5, ref_md5, command, proc, outstanding, result,
          out, calls, verdicts>>

-----------------------------------------------------------------------------
(* Bounds of the model *)

\* largest string length a run is configured with
MaxLen == 1

\* largest total number of trials (lengths times num_tests) of a run
MaxTrials == 3

\* number of symbols of the alphabet random.choice is sampled over
NumSampled == 2

\* number of hexadecimal digits of the stand-in digest
DigestLen == 4

-----------------------------------------------------------------------------
(* Strings *)

ascii_lowercase ==
    <<"a","b","c","d","e","f","g","h","i","j","k","l","m",
      "n","o","p","q","r","s","t","u","v","w","x","y","z">>

ascii_uppercase ==
    <<"A","B","C","D","E","F","G","H","I","J","K","L","M",
      "N","O","P","Q","R","S","T","U","V","W","X","Y","Z">>

digits == <<"0","1","2","3","4","5","6","7","8","9">>

\* string.ascii_letters + string.digits
characters == ascii_lowercase \o ascii_uppercase \o digits

Alphabet == {characters[k] : k \in 1..Len(characters)}

\* the symbols random.choice is sampled over: a lowercase letter, an uppercase
\* letter, a digit, ...
SampledChars == {characters[((k * 26) % Len(characters)) + 1] : k \in 0..(NumSampled - 1)}

\* the characters str.strip() removes
Whitespace == {" ", "\t", "\n", "\r", "\f"}

RECURSIVE LStrip(_)
LStrip(s) ==
    IF s # <<>> /\ Head(s) \in Whitespace THEN LStrip(Tail(s)) ELSE s

RECURSIVE RStrip(_)
RStrip(s) ==
    IF s # <<>> /\ s[Len(s)] \in Whitespace THEN RStrip(SubSeq(s, 1, Len(s) - 1)) ELSE s

\* a strip() that was left out
NoStrip(s) == s

\* str.strip()
Strip(s) == RStrip(LStrip(s))


-----------------------------------------------------------------------------
(* The reference oracle.  hashlib's MD5 compression function is replaced by *)
(* a small deterministic mixing function; what the harness relies on is     *)
(* kept: the input is encoded to bytes, the digest is a function of those   *)
(* bytes only, and hexdigest() is a fixed-width lowercase hexadecimal       *)
(* string.                                                                  *)

HexDigits == <<"0","1","2","3","4","5","6","7","8","9","a","b","c","d","e","f">>

Index(c) == CHOOSE k \in 1..Len(characters) : characters[k] = c

\* code point of an alphanumeric character
Ord(c) ==
    LET k == Index(c) IN
    IF k <= Len(ascii_lowercase) THEN 96 + k
    ELSE IF k <= Len(ascii_lowercase) + Len(ascii_uppercase)
         THEN 64 + (k - Len(ascii_lowercase))
         ELSE 47 + (k - Len(ascii_lowercase) - Len(ascii_uppercase))

\* input_string.encode('utf-8'): one byte per alphanumeric character
Encode(s) == [k \in 1..Len(s) |-> Ord(s[k])]

RECURSIVE Pow16(_)
Pow16(n) == IF n = 0 THEN 1 ELSE 16 * Pow16(n - 1)

\* md5.update(bytes), starting from the state of the fresh hashlib.md5()
RECURSIVE Update(_, _)
Update(state, bytes) ==
    IF bytes = <<>> THEN state
    ELSE Update((state * 31 + Head(bytes)) % Pow16(DigestLen), Tail(bytes))

\* md5.hexdigest(): DigestLen lowercase hexadecimal digits, zero padded
RECURSIVE hexdigest(_, _)
hexdigest(state, width) ==
    IF width = 0 THEN <<>>
    ELSE hexdigest(state \div 16, width - 1) \o <<HexDigits[(state % 16) + 1]>>

calculate_md5_using_hashlib(input_string) ==
    hexdigest(Update(54301 % Pow16(DigestLen), Encode(input_string)), DigestLen)

-----------------------------------------------------------------------------
(* The test-case generator *)

\* range(n + 1) in place of range(n)
OneCharTooMany(n) == [1..((IF n <= 0 THEN 0 ELSE n) + 1) -> SampledChars]

\* every value ''.join(random.choice(characters) for _ in range(n)) can take
RECURSIVE generate_random_string(_)
generate_random_string(n) ==
    IF n <= 0 THEN {<<>>}
    ELSE {<<c>> \o s : c \in SampledChars, s \in generate_random_string(n - 1)}

-----------------------------------------------------------------------------
(* The system under test: the external binary ../bin/kmd5.  Its code is not *)
(* part of the tree; it is modelled by what it may print for an argument.   *)

SubjectKinds == {"padded", "upper", "spaced", "md5sum", "silent", "wrong"}

ReturnCodes == {0, 1}

Upper(s) ==
    [k \in 1..Len(s) |->
        IF s[k] \in Alphabet /\ Index(s[k]) <= Len(ascii_lowercase)
        THEN ascii_uppercase[Index(s[k])]
        ELSE s[k]]

\* the correct digest followed by a newline
Exact(d) == d \o <<"\n">>

\* the ways a kmd5 build can depart from printing the bare digest
Deviant(kind, d) ==
    CASE kind = "padded" -> <<" ">> \o d \o <<"\r", "\n">>
      [] kind = "upper"  -> Upper(d) \o <<"\n">>
      [] kind = "spaced" -> SubSeq(d, 1, Len(d) \div 2) \o <<" ">>
                            \o SubSeq(d, (Len(d) \div 2) + 1, Len(d)) \o <<"\n">>
      [] kind = "md5sum" -> d \o <<" ", " ", "-", "\n">>
      [] kind = "silent" -> <<>>
      [] kind = "wrong"  -> hexdigest(0, DigestLen) \o <<"\n">>

\* what kmd5 may write to its standard output when run with argv
SubjectStdout(argv) ==
    LET d == calculate_md5_using_hashlib(argv[2])
    IN  {Exact(d), Deviant(kmd5, d)}

NoProc == [state |-> "none", returncode |-> 0, stdout |-> <<>>]

NoResult == [returncode |-> 0, stdout |-> <<>>, valid |-> FALSE]

-----------------------------------------------------------------------------
(* Output lines *)

\* f"Testing strings of length {length}:"
ProgressLine(L) ==
    [kind |-> "progress", length |-> L, string |-> <<>>, nuclear |-> <<>>, ref |-> <<>>]

\* f"Mismatch! String: {random_string}, Nuclear MD5: {nuclear_md5}, md5sum MD5: {ref_md5}"
MismatchLine(s, n, r) ==
    [kind |-> "mismatch", length |-> 0, string |-> s, nuclear |-> n, ref |-> r]

-----------------------------------------------------------------------------
(* Initial state: a call fuzz_compare(min_length, max_length, num_tests) *)

Lengths == 0..MaxLen

\* len(range(lo, hi + 1))
RangeLen(lo, hi) == IF hi >= lo THEN hi - lo + 1 ELSE 0

Init ==
    /\ min_length \in Lengths
    /\ max_length \in Lengths
    /\ num_tests \in 0..MaxTrials
    /\ RangeLen(min_length, max_length) * num_tests <= MaxTrials
    /\ kmd5 \in SubjectKinds
    /\ pc = "for_length"
    /\ length_it = min_length
    /\ length = 0
    /\ trial_it = 0
    /\ random_string = <<>>
    /\ nuclear_md5 = <<>>
    /\ ref_md5 = <<>>
    /\ command = <<>>
    /\ proc = NoProc
    /\ outstanding = 0
    /\ result = NoResult
    /\ out = <<>>
    /\ calls = [kibble |-> [L \in Lengths |-> 0], hashlib |-> [L \in Lengths |-> 0],
                hashlib_arg |-> <<>>]
    /\ verdicts = [equal |-> 0, differ |-> 0]

config == <<min_length, max_length, num_tests, kmd5>>

-----------------------------------------------------------------------------
(* fuzz_compare *)

\* for length in range(min_length, max_length + 1): print(progress)
ForLength ==
    /\ pc = "for_length"
    /\ length_it <= max_length
    /\ length' = length_it
    /\ length_it' = length_it + 1
    /\ out' = Append(out, ProgressLine(length_it))
    /\ trial_it' = 0
    /\ pc' = "for_trial"
    /\ UNCHANGED <<config, random_string, nuclear_md5, ref_md5, command, proc,
                   outstanding, result, calls, verdicts>>

\* range(min_length, max_length) in place of range(min_length, max_length + 1)
ReturnExclusive ==
    /\ pc = "for_length"
    /\ length_it >= max_length
    /\ pc' = "done"
    /\ UNCHANGED <<config, length_it, length, trial_it, random_string, nuclear_md5,
                   ref_md5, command, proc, outstanding, result, out, calls, verdicts>>

\* a tally printed after the loops
ReturnWithSummary ==
    /\ pc = "for_length"
    /\ length_it > max_length
    /\ out' = Append(out, [kind |-> "summary", length |-> verdicts.differ,
                           string |-> <<>>, nuclear |-> <<>>, ref |-> <<>>])
    /\ pc' = "done"
    /\ UNCHANGED <<config, length_it, length, trial_it, random_string, nuclear_md5,
                   ref_md5, command, proc, outstanding, result, calls, verdicts>>

\* range(min_length, max_length + 1) is exhausted: fuzz_compare returns
Return ==
    /\ pc = "for_length"
    /\ length_it > max_length
    /\ pc' = "done"
    /\ UNCHANGED <<config, length_it, length, trial_it, random_string, nuclear_md5,
                   ref_md5, command, proc, outstanding, result, out, calls, verdicts>>

\* range(num_tests + 1) in place of range(num_tests)
ForTrialOneTooMany ==
    /\ pc = "for_trial"
    /\ trial_it <= num_tests
    /\ trial_it' = trial_it + 1
    /\ random_string' \in generate_random_string(length)
    /\ pc' = "call_kibble"
    /\ UNCHANGED <<config, length_it, length, nuclear_md5, ref_md5, command, proc,
                   outstanding, result, out, calls, verdicts>>

\* for _ in range(num_tests): random_string = generate_random_string(length)
ForTrial ==
    /\ pc = "for_trial"
    /\ trial_it < num_tests
    /\ trial_it' = trial_it + 1
    /\ random_string' \in generate_random_string(length)
    /\ pc' = "call_kibble"
    /\ UNCHANGED <<config, length_it, length, nuclear_md5, ref_md5, command, proc,
                   outstanding, result, out, calls, verdicts>>

\* range(num_tests) is exhausted: back to the outer loop
EndTrials ==
    /\ pc = "for_trial"
    /\ trial_it >= num_tests
    /\ pc' = "for_length"
    /\ UNCHANGED <<config, length_it, length, trial_it, random_string, nuclear_md5,
                   ref_md5, command, proc, outstanding, result, out, calls, verdicts>>

\* subprocess.Popen in place of subprocess.run: the child is not waited for
SpawnNoWait ==
    /\ pc = "call_kibble"
    /\ command' = <<"../bin/kmd5", random_string>>
    /\ calls' = [calls EXCEPT !.kibble[length] = @ + 1]
    /\ outstanding' = outstanding + 1
    /\ nuclear_md5' = <<>>
    /\ pc' = "call_hashlib"
    /\ UNCHANGED <<config, length_it, length, trial_it, random_string, ref_md5, proc,
                   result, out, verdicts>>

\* calculate_md5_using_kibble(random_string): subprocess.run launches the child
Spawn ==
    /\ pc = "call_kibble"
    /\ command' = <<"../bin/kmd5", random_string>>
    /\ calls' = [calls EXCEPT !.kibble[length] = @ + 1]
    /\ proc' = [NoProc EXCEPT !.state = "running"]
    /\ outstanding' = outstanding + 1
    /\ pc' = "wait"
    /\ UNCHANGED <<config, length_it, length, trial_it, random_string, nuclear_md5,
                   ref_md5, result, out, verdicts>>

\* an OSError caught in the adapter and turned into an empty candidate
LaunchFailsAsMismatch ==
    /\ pc = "call_kibble"
    /\ command' = <<"../bin/kmd5", random_string>>
    /\ calls' = [calls EXCEPT !.kibble[length] = @ + 1]
    /\ proc' = [NoProc EXCEPT !.state = "launch_failed"]
    /\ nuclear_md5' = <<>>
    /\ pc' = "call_hashlib"
    /\ UNCHANGED <<config, length_it, length, trial_it, random_string, ref_md5,
                   outstanding, result, out, verdicts>>

\* subprocess.run cannot launch the binary: OSError, caught nowhere
LaunchFails ==
    /\ pc = "call_kibble"
    /\ command' = <<"../bin/kmd5", random_string>>
    /\ calls' = [calls EXCEPT !.kibble[length] = @ + 1]
    /\ proc' = [NoProc EXCEPT !.state = "launch_failed"]
    /\ pc' = "raised"
    /\ UNCHANGED <<config, length_it, length, trial_it, random_string, nuclear_md5,
                   ref_md5, outstanding, result, out, verdicts>>

\* the child exits, with any status, having written its output
SubjectExits ==
    /\ pc = "wait"
    /\ proc.state = "running"
    /\ \E rc \in ReturnCodes, o \in SubjectStdout(command) :
           proc' = [state |-> "exited", returncode |-> rc, stdout |-> o]
    /\ UNCHANGED <<config, pc, length_it, length, trial_it, random_string, nuclear_md5,
                   ref_md5, command, outstanding, result, out, calls, verdicts>>

\* the child never exits
SubjectHangs ==
    /\ pc = "wait"
    /\ proc.state = "running"
    /\ proc' = [proc EXCEPT !.state = "hung"]
    /\ UNCHANGED <<config, pc, length_it, length, trial_it, random_string, nuclear_md5,
                   ref_md5, command, outstanding, result, out, calls, verdicts>>

\* subprocess.run(..., check=True): CalledProcessError on a non-zero status
AdapterReturnsChecked ==
    /\ pc = "wait"
    /\ proc.state = "exited"
    /\ result' = [returncode |-> proc.returncode, stdout |-> proc.stdout, valid |-> TRUE]
    /\ proc' = NoProc
    /\ outstanding' = outstanding - 1
    /\ IF proc.returncode # 0
       THEN pc' = "raised" /\ nuclear_md5' = nuclear_md5
       ELSE pc' = "call_hashlib" /\ nuclear_md5' = Strip(proc.stdout)
    /\ UNCHANGED <<config, length_it, length, trial_it, random_string, ref_md5,
                   command, out, calls, verdicts>>

\* subprocess.run returns the CompletedProcess; return result.stdout.strip()
AdapterReturns ==
    /\ pc = "wait"
    /\ proc.state = "exited"
    /\ result' = [returncode |-> proc.returncode, stdout |-> proc.stdout, valid |-> TRUE]
    /\ nuclear_md5' = Strip(proc.stdout)
    /\ proc' = NoProc
    /\ outstanding' = outstanding - 1
    /\ pc' = "call_hashlib"
    /\ UNCHANGED <<config, length_it, length, trial_it, random_string, ref_md5,
                   command, out, calls, verdicts>>

\* ref_md5 = calculate_md5_using_hashlib(random_string)
Oracle ==
    /\ pc = "call_hashlib"
    /\ ref_md5' = calculate_md5_using_hashlib(random_string)
    /\ calls' = [calls EXCEPT !.hashlib[length] = @ + 1, !.hashlib_arg = random_string]
    /\ pc' = "compare"
    /\ UNCHANGED <<config, length_it, length, trial_it, random_string, nuclear_md5,
                   command, proc, outstanding, result, out, verdicts>>

\* a return on the first mismatch
CompareAbortsOnMismatch ==
    /\ pc = "compare"
    /\ IF nuclear_md5 # ref_md5
       THEN /\ out' = Append(out, MismatchLine(random_string, nuclear_md5, ref_md5))
            /\ verdicts' = [verdicts EXCEPT !.differ = @ + 1]
            /\ pc' = "done"
       ELSE /\ out' = out
            /\ verdicts' = [verdicts EXCEPT !.equal = @ + 1]
            /\ pc' = "for_trial"
    /\ result' = NoResult
    /\ UNCHANGED <<config, length_it, length, trial_it, random_string, nuclear_md5,
                   ref_md5, command, proc, outstanding, calls>>

\* the candidate printed without its last three characters, as
\* calculate_md5_using_md5sum cuts it
CompareTruncates ==
    /\ pc = "compare"
    /\ IF nuclear_md5 # ref_md5
       THEN /\ out' = Append(out, MismatchLine(random_string,
                                 SubSeq(nuclear_md5, 1, Len(nuclear_md5) - 3), ref_md5))
            /\ verdicts' = [verdicts EXCEPT !.differ = @ + 1]
       ELSE /\ out' = out
            /\ verdicts' = [verdicts EXCEPT !.equal = @ + 1]
    /\ result' = NoResult
    /\ pc' = "for_trial"
    /\ UNCHANGED <<config, length_it, length, trial_it, random_string, nuclear_md5,
                   ref_md5, command, proc, outstanding, calls>>

\* if nuclear_md5 != ref_md5: print(mismatch)
Compare ==
    /\ pc = "compare"
    /\ IF nuclear_md5 # ref_md5
       THEN /\ out' = Append(out, MismatchLine(random_string, nuclear_md5, ref_md5))
            /\ verdicts' = [verdicts EXCEPT !.differ = @ + 1]
       ELSE /\ out' = out
            /\ verdicts' = [verdicts EXCEPT !.equal = @ + 1]
    /\ result' = NoResult
    /\ pc' = "for_trial"
    /\ UNCHANGED <<config, length_it, length, trial_it, random_string, nuclear_md5,
                   ref_md5, command, proc, outstanding, calls>>

Next ==
    \/ ForLength
    \/ Return
    \/ ForTrial
    \/ EndTrials
    \/ Spawn
    \/ LaunchFails
    \/ SubjectExits
    \/ SubjectHangs
    \/ AdapterReturns
    \/ Oracle
    \/ Compare

Spec == Init /\ [][Next]_vars

\* the calls liveness is checked for: fewer than MaxTrials trials, and a kmd5
\* whose deviating output either still compares equal or is a wrong digest
LiveInit ==
    /\ Init
    /\ kmd5 \in {"padded", "wrong"}
    /\ RangeLen(min_length, max_length) * num_tests < MaxTrials

\* the interpreter keeps running, and a running child either exits or hangs
LiveSpec == LiveInit /\ [][Next]_vars /\ WF_vars(Next)

-----------------------------------------------------------------------------
(* Properties *)

MismatchLines(o) == SelectSeq(o, LAMBDA l : l.kind = "mismatch")

ProgressLines(o) == SelectSeq(o, LAMBDA l : l.kind = "progress")

InRange(L) == min_length <= L /\ L <= max_length

InTrial == pc \in {"call_kibble", "wait", "call_hashlib", "compare"}

\* o is d with nothing but whitespace before and after it
Surrounds(o, d) ==
    \E i \in 1..(Len(o) + 1) : \E j \in 0..Len(o) :
        /\ SubSeq(o, i, j) = d
        /\ \A k \in 1..(i - 1) : o[k] \in Whitespace
        /\ \A k \in (j + 1)..Len(o) : o[k] \in Whitespace

\* the text of o between its first and its last non-whitespace character
Core(o) ==
    LET ink == {k \in 1..Len(o) : o[k] \notin Whitespace}
    IN  IF ink = {} THEN <<>>
        ELSE SubSeq(o, CHOOSE k \in ink : \A m \in ink : k <= m,
                       CHOOSE k \in ink : \A m \in ink : k >= m)

NoWhitespace(s) == SelectSeq(s, LAMBDA c : c \notin Whitespace)

IsLowerHex(d) ==
    /\ Len(d) = DigestLen
    /\ \A k \in 1..Len(d) : \E h \in 1..Len(HexDigits) : d[k] = HexDigits[h]

\* C1: in a completed run with min_length <= max_length in which no trial's
\* digests were equal, every length and every trial was run and exactly one
\* mismatch line per trial was printed: (max_length - min_length + 1) * num_tests
\* in all; and a comparison that finds a mismatch goes on to the next trial.
C1_NonHaltingOnMismatch ==
    /\ (pc = "done" /\ min_length <= max_length /\ verdicts.equal = 0) =>
          /\ Len(MismatchLines(out)) = (max_length - min_length + 1) * num_tests
          /\ verdicts.differ = (max_length - min_length + 1) * num_tests
          /\ \A L \in Lengths : InRange(L) => calls.kibble[L] = num_tests
    /\ (pc = "for_trial" /\ trial_it > 0) =>
          /\ verdicts.equal + verdicts.differ = (length - min_length) * num_tests + trial_it
          /\ Len(MismatchLines(out)) = verdicts.differ

C1_Witness ==
    /\ pc = "done"
    /\ min_length < max_length
    /\ verdicts.equal = 0
    /\ Len(MismatchLines(out)) >= 2

\* C2: in a completed run, for every length L of the range the adapter and the
\* oracle were each called exactly num_tests times (and never for a length
\* outside the range); within a trial each is called once, on the test case
\* generated for that trial, which has L characters.
C2_Coverage ==
    /\ pc = "done" =>
          \A L \in Lengths :
              /\ calls.kibble[L] = (IF InRange(L) THEN num_tests ELSE 0)
              /\ calls.hashlib[L] = (IF InRange(L) THEN num_tests ELSE 0)
    /\ pc \in {"wait", "call_hashlib", "compare"} =>
          /\ calls.kibble[length] = trial_it
          /\ command[2] = random_string
          /\ Len(command[2]) = length
    /\ pc \in {"call_kibble", "wait", "call_hashlib"} =>
          calls.hashlib[length] = trial_it - 1
    /\ pc = "compare" =>
          /\ calls.hashlib[length] = trial_it
          /\ calls.hashlib_arg = command[2]
          /\ ref_md5 = calculate_md5_using_hashlib(command[2])
    /\ (pc = "for_trial" /\ verdicts.equal + verdicts.differ > 0) =>
          /\ calls.kibble[length] = trial_it
          /\ calls.hashlib[length] = trial_it

C2_Witness ==
    /\ pc = "done"
    /\ num_tests >= 2
    /\ verdicts.equal >= 1
    /\ verdicts.differ >= 1
    /\ calls.hashlib[max_length] = num_tests

\* C3: the comparison of a trial prints a mismatch line if and only if the
\* candidate differs from the expected digest; the line holds the string that
\* was given to the adapter and to the oracle, the candidate and the expected
\* digest as compared; no other step prints or removes a mismatch line.
C3_MismatchReporting ==
    [][ /\ pc = "compare" =>
              /\ nuclear_md5 = Strip(result.stdout)
              /\ ref_md5 = calculate_md5_using_hashlib(random_string)
              /\ IF Strip(result.stdout) # calculate_md5_using_hashlib(command[2])
                 THEN out' = Append(out, MismatchLine(command[2], Strip(result.stdout),
                                         calculate_md5_using_hashlib(calls.hashlib_arg)))
                 ELSE out' = out
        /\ pc # "compare" => MismatchLines(out') = MismatchLines(out)
      ]_vars

C3_Witness ==
    /\ pc = "for_trial"
    /\ verdicts.equal >= 1
    /\ out[Len(out)].kind = "mismatch"
    /\ out[Len(out)].string = random_string
    /\ out[Len(out)].nuclear = nuclear_md5
    /\ out[Len(out)].ref = ref_md5
    /\ Len(random_string) = 1

\* C4: the progress lines name min_length, min_length + 1, ... in ascending
\* order, one line per length visited and none outside the range; the line of
\* L comes before every trial of L and after every trial of L - 1; an empty
\* range prints nothing and runs no trial.
C4_LengthEnumeration ==
    LET P == ProgressLines(out) IN
    /\ \A k \in 1..Len(P) : P[k].length = min_length + k - 1
    /\ Len(P) = length_it - min_length
    /\ Len(P) <= RangeLen(min_length, max_length)
    /\ pc = "done" => Len(P) = RangeLen(min_length, max_length)
    /\ pc \notin {"for_length", "done"} /\ Len(P) > 0 => P[Len(P)].length = length
    /\ \A L \in Lengths :
          /\ ~(L >= min_length /\ L < length_it) =>
                calls.kibble[L] = 0 /\ calls.hashlib[L] = 0
          /\ (L >= min_length /\ L < length_it - 1) =>
                calls.kibble[L] = num_tests /\ calls.hashlib[L] = num_tests
    /\ \A j \in 1..Len(out) :
          out[j].kind = "mismatch" =>
              \E i \in 1..(j - 1) :
                  /\ out[i].kind = "progress"
                  /\ out[i].length = Len(out[j].string)
                  /\ \A m \in (i + 1)..(j - 1) : out[m].kind # "progress"
    /\ min_length > max_length =>
          /\ out = <<>>
          /\ verdicts.equal + verdicts.differ = 0
          /\ \A L \in Lengths : calls.kibble[L] = 0

C4_Witness ==
    /\ pc = "done"
    /\ min_length < max_length
    /\ Len(out) = 4
    /\ out[1].kind = "progress" /\ out[2].kind = "mismatch"
    /\ out[3].kind = "progress" /\ out[4].kind = "mismatch"

\* C5: a generated test case of a trial of length L >= 0 has exactly L
\* characters, each one of the 62 alphanumeric symbols; for L = 0 it is the
\* empty string; the strings given to the adapter and the oracle are such.
C5_GeneratorShape ==
    /\ Cardinality(Alphabet) = 62
    /\ InTrial =>
          /\ Len(random_string) = length
          /\ \A k \in 1..Len(random_string) : random_string[k] \in Alphabet
          /\ length = 0 => random_string = <<>>
    /\ pc \in {"wait", "call_hashlib", "compare"} =>
          /\ Len(command[2]) = length
          /\ \A k \in 1..Len(command[2]) : command[2][k] \in Alphabet
    /\ pc = "compare" =>
          /\ Len(calls.hashlib_arg) = length
          /\ \A k \in 1..Len(calls.hashlib_arg) : calls.hashlib_arg[k] \in Alphabet

C5_Witness ==
    /\ pc = "compare"
    /\ min_length = 0
    /\ length = MaxLen
    /\ Len(random_string) = MaxLen
    /\ \E j \in 1..Len(out) : out[j].kind = "mismatch" /\ out[j].string = <<>>

\* C6: a run in which no child hangs and no launch fails reaches the end of
\* fuzz_compare; the return prints nothing, so the output of a finished run is
\* its progress lines and its mismatch lines, with no summary after them.
C6_Termination ==
    /\ <>(pc = "done" \/ pc = "raised" \/ proc.state = "hung")
    /\ [][pc' = "done" => out' = out]_vars
    /\ [](pc = "done" =>
            /\ \A j \in 1..Len(out) : out[j].kind \in {"progress", "mismatch"}
            /\ Len(out) = RangeLen(min_length, max_length) + verdicts.differ)

C6_Witness ==
    /\ pc = "done"
    /\ Len(out) >= 3
    /\ out[Len(out)].kind = "mismatch"
    /\ verdicts.equal >= 1

Hung == proc.state = "hung"

\* C7: at most one kmd5 child is outstanding; within a trial the adapter is
\* called before the oracle and the oracle before the comparison; a test case
\* is generated only when every earlier trial has been compared; a child that
\* never exits stops the harness: no step, no output, no later trial.
C7_Sequential ==
    /\ [](outstanding <= 1)
    /\ [](outstanding = 1 <=> pc = "wait")
    /\ [](pc = "call_hashlib" => calls.kibble[length] = calls.hashlib[length] + 1)
    /\ [](pc = "call_kibble" =>
            /\ calls.kibble[length] = trial_it - 1
            /\ calls.hashlib[length] = trial_it - 1
            /\ verdicts.equal + verdicts.differ
                  = (length - min_length) * num_tests + trial_it - 1)
    /\ [](pc = "compare" =>
            verdicts.equal + verdicts.differ
                  = (length - min_length) * num_tests + trial_it - 1)
    /\ [][Hung => (pc' = pc /\ out' = out /\ trial_it' = trial_it /\ length' = length
                   /\ calls' = calls /\ Hung')]_vars

C7_Witness ==
    /\ Hung
    /\ pc = "wait"
    /\ trial_it = 2
    /\ outstanding = 1
    /\ verdicts.differ = 1

\* C8: the candidate is the child's standard output stripped of leading and
\* trailing whitespace, the expected value a lowercase hexadecimal digest, and
\* they are compared exactly: output equal to the digest up to surrounding
\* whitespace prints no mismatch line; the digest in another letter case, with
\* whitespace inside it or with more text prints one.
C8_ComparisonSemantics ==
    [][pc = "compare" =>
          LET o == result.stdout
              d == calculate_md5_using_hashlib(command[2])
              line == MismatchLine(command[2], Core(o), d)
          IN  /\ nuclear_md5 = Core(o)
              /\ ref_md5 = d
              /\ IsLowerHex(d)
              /\ Surrounds(o, d) => out' = out
              /\ ~Surrounds(o, d) => out' = Append(out, line)
              /\ (Core(o) # d /\ Upper(Core(o)) = Upper(d)) => out' = Append(out, line)
              /\ (Core(o) # d /\ NoWhitespace(Core(o)) = d) => out' = Append(out, line)
              /\ (Len(Core(o)) > Len(d) /\ SubSeq(Core(o), 1, Len(d)) = d) =>
                    out' = Append(out, line)
      ]_vars

C8_Witness ==
    /\ pc = "for_trial"
    /\ kmd5 = "upper"
    /\ Len(out) >= 3
    /\ out[Len(out)].kind = "mismatch"
    /\ out[Len(out)].nuclear = Upper(out[Len(out)].ref)
    /\ out[Len(out) - 1].kind = "mismatch"
    /\ verdicts.equal >= 1

\* C9: a launch failure ends the run where it happens: the exception leaves
\* fuzz_compare, the oracle is not called for that trial, no mismatch line is
\* printed for it, and nothing runs afterwards.
C9_LaunchFailure ==
    /\ [](proc.state = "launch_failed" =>
            /\ pc = "raised"
            /\ calls.kibble[length] = trial_it
            /\ calls.hashlib[length] = trial_it - 1
            /\ Len(MismatchLines(out)) = verdicts.differ
            /\ verdicts.equal + verdicts.differ
                  = (length - min_length) * num_tests + trial_it - 1)
    /\ [](pc = "raised" => proc.state = "launch_failed")
    /\ [][pc = "call_kibble" /\ pc' # "wait" =>
             (pc' = "raised" /\ out' = out /\ verdicts' = verdicts
              /\ calls'.hashlib = calls.hashlib)]_vars
    /\ [][pc = "raised" => UNCHANGED vars]_vars

C9_Witness ==
    /\ pc = "raised"
    /\ proc.state = "launch_failed"
    /\ trial_it = 2
    /\ num_tests = 3
    /\ verdicts.differ = 1

\* C10: a child that exits with a non-zero status is treated as one that exits
\* with zero: the adapter returns its stripped output, the trial is judged by
\* the comparison alone, and the run goes on.
C10_ExitStatusIgnored ==
    [][ /\ (pc = "wait" /\ proc.state = "exited" /\ proc.returncode # 0) =>
              /\ pc' = "call_hashlib"
              /\ nuclear_md5' = Strip(proc.stdout)
              /\ result'.returncode = proc.returncode
              /\ out' = out
        /\ (pc = "compare" /\ result.returncode # 0) =>
              /\ pc' = "for_trial"
              /\ nuclear_md5 = Strip(result.stdout)
              /\ IF Strip(result.stdout) = ref_md5
                 THEN out' = out
                 ELSE out' = Append(out, MismatchLine(random_string, nuclear_md5, ref_md5))
      ]_vars

C10_Witness ==
    /\ pc = "compare"
    /\ result.valid
    /\ result.returncode = 1
    /\ result.stdout = <<>>
    /\ verdicts.equal >= 1

=============================================================================
